---- MODULE Spec2Model ----
(***************************************************************************)
(* Model of driver/ks53230.py: class KS53230, the GenCounter driver for    *)
(* the Keysight 53230A counter.                                            *)
(*                                                                         *)
(* One engine instance, single threaded.  A public method is one action,   *)
(* except where it waits for a reply of the device that decides how it     *)
(* goes on (the status poll and the streaming read loop of freq): there    *)
(* each query/reply round is one action.                                   *)
(*                                                                         *)
(* A configuration string is modelled by its key:value tokens.  Numeric    *)
(* values are integers (int() of a decimal token).  cmds is the list of    *)
(* commands and queries the device session received during the current     *)
(* (or last finished) public call, meas_out the result container passed to *)
(* that call, given empty.                                                 *)
(***************************************************************************)
EXTENDS Integers, Sequences, FiniteSets, TLC

VARIABLES
    savedTrigCfg,   \* self._savedTrigCfg
    savedTrigLev,   \* self._savedTrigLev
    pc,             \* position of the engine: "idle" or inside freq
    op,             \* the public method running or last run
    arg,            \* its argument
    cmds,           \* commands/queries sent to self._drv during that call
    meas_out,       \* values appended to the result container in that call
    err,            \* exception that ended the call, OK if none (so far)
    samples,        \* local variable samples of freq (0 outside freq)
    i,              \* local variable i of freq's streaming loop
    rounds,         \* history: number of R? rounds of that loop in this call
    noplus,         \* history: the reply of the latest R? round had no "+"
    lastTrig,       \* history: the most recent run of configureTrigger
    trigOK          \* history: some public configureTrigger call returned

vars == <<savedTrigCfg, savedTrigLev, pc, op, arg, cmds, meas_out, err,
          samples, i, rounds, noplus, lastTrig, trigOK>>

\* ------------------------------------------------------------------ bounds
MaxSamples == 2
MaxReplyLen == 4

\* ------------------------------------------------------- program constants
step == 5
CountMin == 1
CountMax == 1000000
DelayMin == 0
DelayMax == 3600

\* Python's None
None == [none |-> TRUE]
\* no exception
OK == "OK"

\* A command or query handed to self._drv.write / self._drv.query: the
\* mnemonic, the channel index it names (0: none), its integer parameter and
\* its text parameter.
Cmd(m, ch, n, s) == [m |-> m, ch |-> ch, n |-> n, s |-> s]

\* ----------------------------------------------------------- input domains
\* One accepted and one rejected value of each key of configureTrigger ...
CntVals == {1, 0}
DelVals == {3600, -1}
SouVals == {"imm", "int"}
SloVals == {"pos", "up"}

Opt(k, V) == {<< >>} \cup {k :> v : v \in V}

\* ... and the values next to the limits and the other enumeration members,
\* each as a configuration string of its own.
EdgeCfgStrs ==
    {"cnt" :> 1000000, "cnt" :> 1000001, "del" :> 0, "del" :> 3601,
     "sou" :> "bus", "sou" :> "ext", "slo" :> "neg"}

\* Trigger configuration strings: any subset of the keys cnt, del, sou, slo.
TrigCfgStrs ==
    {a @@ b @@ c @@ d : a \in Opt("cnt", CntVals), b \in Opt("del", DelVals),
                        c \in Opt("sou", SouVals), d \in Opt("slo", SloVals)}
    \cup EdgeCfgStrs

(***************************************************************************)
(* configureTrigger (lines 262-311).  Each block validates its key and     *)
(* then writes its command; an invalid value raises AttributeError and     *)
(* ends the call.  r is the run so far: commands written and exception.    *)
(***************************************************************************)
configureTrigger_cnt(cfgdict, r) ==
    IF r.err # OK \/ "cnt" \notin DOMAIN cfgdict THEN r
    ELSE IF cfgdict.cnt < CountMin \/ cfgdict.cnt > CountMax
         THEN [r EXCEPT !.err = "AttributeError"]
         ELSE [r EXCEPT !.cmds = Append(@, Cmd("TRIGGer:COUNt", 0, cfgdict.cnt, ""))]

configureTrigger_del(cfgdict, r) ==
    IF r.err # OK \/ "del" \notin DOMAIN cfgdict THEN r
    ELSE IF cfgdict.del < DelayMin \/ cfgdict.del > DelayMax
         THEN [r EXCEPT !.err = "AttributeError"]
         ELSE [r EXCEPT !.cmds = Append(@, Cmd("TRIGGer:DELay", 0, cfgdict.del, "%.6f"))]

configureTrigger_sou(cfgdict, r) ==
    IF r.err # OK \/ "sou" \notin DOMAIN cfgdict THEN r
    ELSE IF cfgdict.sou \notin {"imm", "bus", "ext"}
         THEN [r EXCEPT !.err = "AttributeError"]
         ELSE [r EXCEPT !.cmds = Append(@, Cmd("TRIGGer:SOURce", 0, 0, cfgdict.sou))]

\* The slo block validating the slope and not writing it.
configureTrigger_slo_nowrite(cfgdict, r) ==
    IF r.err # OK \/ "slo" \notin DOMAIN cfgdict THEN r
    ELSE IF cfgdict.slo \notin {"pos", "neg"}
         THEN [r EXCEPT !.err = "AttributeError"]
         ELSE r

configureTrigger_slo(cfgdict, r) ==
    IF r.err # OK \/ "slo" \notin DOMAIN cfgdict THEN r
    ELSE IF cfgdict.slo \notin {"pos", "neg"}
         THEN [r EXCEPT !.err = "AttributeError"]
         ELSE [r EXCEPT !.cmds = Append(@, Cmd("TRIGGer:SLOPe", 0, 0, cfgdict.slo))]

\* configureTrigger with the del block moved in front of the cnt block.
configureTrigger_run_delfirst(cfgstr) ==
    configureTrigger_slo(cfgstr,
      configureTrigger_sou(cfgstr,
        configureTrigger_cnt(cfgstr,
          configureTrigger_del(cfgstr, [cmds |-> << >>, err |-> OK]))))

\* The commands written and the exception raised by configureTrigger(cfgstr).
configureTrigger_run(cfgstr) ==
    configureTrigger_slo(cfgstr,
      configureTrigger_sou(cfgstr,
        configureTrigger_del(cfgstr,
          configureTrigger_cnt(cfgstr, [cmds |-> << >>, err |-> OK]))))

\* The value self._savedTrigCfg has after configureTrigger(cfgstr):
\* line 283 assigns it before any key is looked at.
configureTrigger_saved(cfgstr, old) == cfgstr

(***************************************************************************)
(* Text values.  A value that the code inspects character by character is  *)
(* a sequence of one-character strings.                                    *)
(***************************************************************************)
Digits == {"0", "1", "2", "3", "4", "5", "6", "7", "8", "9"}

DigitVal(c) ==
    CASE c = "0" -> 0 [] c = "1" -> 1 [] c = "2" -> 2 [] c = "3" -> 3
      [] c = "4" -> 4 [] c = "5" -> 5 [] c = "6" -> 6 [] c = "7" -> 7
      [] c = "8" -> 8 [] c = "9" -> 9

\* s without a leading sign
Unsigned(s) == IF Len(s) > 0 /\ s[1] \in {"+", "-"} THEN Tail(s) ELSE s

\* float(s) does not raise ValueError: an optional sign, then digits with at
\* most one decimal point and at least one digit (the texts of the model
\* have no exponent, blank or underscore).
float_ok(s) ==
    LET b == Unsigned(s) IN
    /\ \A k \in 1..Len(b) : b[k] \in Digits \cup {"."}
    /\ Cardinality({k \in 1..Len(b) : b[k] = "."}) <= 1
    /\ \E k \in 1..Len(b) : b[k] \in Digits

RECURSIVE DecVal(_)
DecVal(s) == IF s = << >> THEN 0
             ELSE 10 * DecVal(SubSeq(s, 1, Len(s) - 1)) + DigitVal(s[Len(s)])

\* float(s), in thousandths (three decimals are kept, as "%1.3f" prints).
float(s) ==
    LET b    == Unsigned(s)
        dot  == IF \E k \in 1..Len(b) : b[k] = "."
                THEN CHOOSE k \in 1..Len(b) : b[k] = "." ELSE Len(b) + 1
        ip   == SubSeq(b, 1, dot - 1)
        fr   == SubSeq(b, dot + 1, Len(b))
        fr3  == SubSeq(fr \o <<"0", "0", "0">>, 1, 3)
        mag  == 1000 * DecVal(ip) + DecVal(fr3)
    IN IF Len(s) > 0 /\ s[1] = "-" THEN 0 - mag ELSE mag

(***************************************************************************)
(* trigLevel (lines 115-150).  The trig<ch> keys of a configuration string *)
(* are modelled as the list of [ch, val] entries in key order.             *)
(***************************************************************************)
LevelVals == {<<"2", ".", "5">>, <<"a", "5", "0">>, <<"h", "i">>}
Channels == {1, 2}

\* the trig<ch>:<value> tokens of a configuration string, by channel
TrigKeys ==
    {<< >>} \cup {<<[ch |-> c, val |-> v]>> : c \in Channels, v \in LevelVals}
    \cup {t \in {<<[ch |-> c, val |-> v], [ch |-> d, val |-> w]>> :
                    c \in Channels, d \in Channels,
                    v \in LevelVals, w \in LevelVals} : t[1].ch < t[2].ch}

\* One iteration of the for loop of trigLevel (lines 135-150) for key e.
\* In auto mode the debug message of line 141 is built with the format
\* "... %s\%", which raises ValueError (incomplete format); in manual mode
\* float() raises ValueError for a non-numeric value.
trigLevel_key(e, r) ==
    IF r.err # OK THEN r
    ELSE IF e.val[1] = "a" THEN [r EXCEPT !.err = "ValueError"]
    ELSE IF ~float_ok(e.val) THEN [r EXCEPT !.err = "ValueError"]
    ELSE [r EXCEPT !.cmds = @ \o <<Cmd("INPUT:LEVEL:AUTO OFF", e.ch, 0, ""),
                                   Cmd("INPUT:LEVEL", e.ch, float(e.val), "%1.3f")>>]

RECURSIVE trigLevel_loop(_, _)
trigLevel_loop(keys, r) ==
    IF keys = << >> THEN r
    ELSE trigLevel_loop(Tail(keys), trigLevel_key(Head(keys), r))

\* trigLevel without the check of line 132 for an empty key list.
trigLevel_run_nocheck(keys, r) ==
    IF r.err # OK THEN r ELSE trigLevel_loop(keys, r)

\* trigLevel(cfgstr) continuing the run r; keys are the trig<ch> entries.
trigLevel_run(keys, r) ==
    IF r.err # OK THEN r
    ELSE IF keys = << >> THEN [r EXCEPT !.err = "AttributeError"]
    ELSE trigLevel_loop(keys, r)

\* logging.debug(...) in period and timeInterval: the module imports re and
\* time (lines 33-38) and never logging, so the name lookup raises NameError.
logging_debug(r) == IF r.err # OK THEN r ELSE [r EXCEPT !.err = "NameError"]

\* self._drv.write / self._drv.query continuing the run r
drv_write(r, c) == IF r.err # OK THEN r ELSE [r EXCEPT !.cmds = Append(@, c)]

(***************************************************************************)
(* period (lines 234-260).  cfgstr.ch lists the digits of the ch<d> keys,  *)
(* cfgstr.trig the trig<ch> entries of the same string.                    *)
(***************************************************************************)
PeriodCfgStrs ==
    [ch : {<< >>, <<1>>, <<2>>, <<1, 2>>}, trig : TrigKeys]

\* One iteration of the for loop of period (lines 252-260) for channel k.
period_key(k, cfgstr, r) ==
    IF r.err # OK THEN r
    ELSE LET r1 == drv_write(r, Cmd("CONF:PER", k, 0, "DEF,DEF"))
             r2 == trigLevel_run(cfgstr.trig, r1)
             r3 == drv_write(r2, Cmd("INPUT:COUPLING", k, 0, "DC"))
             r4 == drv_write(r3, Cmd("INIT", 0, 0, ""))
             r5 == drv_write(r4, Cmd("READ?", 0, 0, ""))
         IN logging_debug(r5)

RECURSIVE period_loop(_, _, _)
period_loop(keys, cfgstr, r) ==
    IF keys = << >> THEN r
    ELSE period_loop(Tail(keys), cfgstr, period_key(Head(keys), cfgstr, r))

period_run(cfgstr) ==
    IF cfgstr.ch = << >> THEN [cmds |-> << >>, err |-> "Exception"]
    ELSE period_loop(cfgstr.ch, cfgstr, [cmds |-> << >>, err |-> OK])

(***************************************************************************)
(* timeInterval (lines 313-368).  Line 330 calls logging.debug, which      *)
(* raises NameError: lines 332-368 are never executed.                     *)
(***************************************************************************)
TimeIntervalCfgStrs ==
    [ref : {"A", "B"}, tstamp : {"Y", "N"}, sampl : 1..MaxSamples,
     trig : {<< >>, <<[ch |-> 1, val |-> <<"2", ".", "5">>]>>}]

timeInterval_run(cfgstr) == logging_debug([cmds |-> << >>, err |-> OK])

(***************************************************************************)
(* freq (lines 152-232).  cfgstr carries the keys ch, cou and sampl; the   *)
(* keys exp and res are present too and only fill the "%s,%s" part of the  *)
(* text of the CONF:FREQ command.                                          *)
(***************************************************************************)
FreqCfgStrs == [ch : Channels, cou : {"dc"}, sampl : 1..MaxSamples]

\* Line 179 calls self.logger.Error before line 180 raises Exception: with a
\* logging.Logger, which has no attribute Error, AttributeError is raised
\* instead.  Either way the call ends there.
NotConfiguredErrs == {"AttributeError", "Exception"}

\* freq_setup with the input coupling written before the trigger is
\* configured again.
freq_setup_couplingfirst(cfgstr, trig, lev) ==
    LET r0 == [cmds |-> <<Cmd("CONF:FREQ", cfgstr.ch, 0, "%s,%s"),
                          Cmd("SAMP:COUN", 0, 1, ""),
                          Cmd("TRIG:COUN", 0, cfgstr.sampl, ""),
                          Cmd("INPUT:COUPLING", cfgstr.ch, 0, cfgstr.cou)>>,
               err |-> OK]
        r1 == [cmds |-> r0.cmds \o trig.cmds, err |-> trig.err]
        r2 == IF lev # None THEN trigLevel_run(lev.trig, r1) ELSE r1
        r4 == drv_write(r2, Cmd("SENS:FREQ:GATE:TIME", 0, 0, ".1"))
    IN drv_write(r4, Cmd("INIT", 0, 0, ""))

\* Lines 185-198: the commands written by freq up to INIT, and the exception
\* that stopped them.  trig is the run of configureTrigger(self._savedTrigCfg)
\* of line 191.
freq_setup(cfgstr, trig, lev) ==
    LET r0 == [cmds |-> <<Cmd("CONF:FREQ", cfgstr.ch, 0, "%s,%s"),
                          Cmd("SAMP:COUN", 0, 1, ""),
                          Cmd("TRIG:COUN", 0, cfgstr.sampl, "")>>,
               err |-> OK]
        r1 == [cmds |-> r0.cmds \o trig.cmds, err |-> trig.err]
        r2 == IF lev # None THEN trigLevel_run(lev.trig, r1) ELSE r1
        r3 == drv_write(r2, Cmd("INPUT:COUPLING", cfgstr.ch, 0, cfgstr.cou))
        r4 == drv_write(r3, Cmd("SENS:FREQ:GATE:TIME", 0, 0, ".1"))
    IN drv_write(r4, Cmd("INIT", 0, 0, ""))

\* Replies of the device to *ESR?
EsrReplies == {0, 1, 16, 17}

\* Replies of the device to R?: any text of these characters
Chars == {"#", "+", "1", ","}
Replies == UNION {[1..n -> Chars] : n \in 0..MaxReplyLen}

\* Lines 222-224: the index at which the scan for "+" stops, 0 when it runs
\* off the end of the text (IndexError).
find_plus(meas) ==
    IF \E k \in 1..Len(meas) : meas[k] = "+"
    THEN CHOOSE k \in 1..Len(meas) :
            meas[k] = "+" /\ \A j \in 1..(k - 1) : meas[j] # "+"
    ELSE 0

\* meas.split(",")
RECURSIVE split(_)
split(meas) ==
    IF \E k \in 1..Len(meas) : meas[k] = ","
    THEN LET k == CHOOSE k \in 1..Len(meas) :
                    meas[k] = "," /\ \A j \in 1..(k - 1) : meas[j] # ","
         IN <<SubSeq(meas, 1, k - 1)>> \o split(SubSeq(meas, k + 1, Len(meas)))
    ELSE <<meas>>

\* Lines 226-228: the values appended for the tokens toks, and the ValueError
\* of float() at the first token that is not a number.
RECURSIVE freq_add(_, _)
freq_add(toks, r) ==
    IF toks = << >> \/ r.err # OK THEN r
    ELSE IF ~float_ok(Head(toks)) THEN [r EXCEPT !.err = "ValueError"]
    ELSE freq_add(Tail(toks), [r EXCEPT !.out = Append(@, float(Head(toks)))])

\* The round with a reply without "+" taken as a round without samples.
freq_round_tolerant(meas) ==
    LET k == find_plus(meas) IN
    IF k = 0 THEN [out |-> << >>, err |-> OK]
    ELSE freq_add(split(SubSeq(meas, k, Len(meas))), [out |-> << >>, err |-> OK])

\* Lines 222-228: one round of the streaming loop on the reply meas.
freq_round(meas) ==
    LET k == find_plus(meas) IN
    IF k = 0 THEN [out |-> << >>, err |-> "IndexError"]
    ELSE freq_add(split(SubSeq(meas, k, Len(meas))), [out |-> << >>, err |-> OK])

\* The loop test taken once more when the count has just been reached.
freq_while_le(n, total) == n <= total

\* Line 217: the test of the streaming loop, while i < samples.
freq_while(n, total) == n < total

Init ==
    /\ savedTrigCfg = None
    /\ savedTrigLev = None
    /\ pc = "idle"
    /\ op = "__init__"
    /\ arg = None
    /\ cmds = << >>
    /\ meas_out = << >>
    /\ err = OK
    /\ samples = 0
    /\ i = 0
    /\ rounds = 0
    /\ noplus = FALSE
    /\ lastTrig = [cfg |-> None, cmds |-> << >>, err |-> OK]
    /\ trigOK = FALSE

\* Public call configureTrigger(cfgstr).
configureTrigger ==
    /\ pc = "idle"
    /\ \E cfgstr \in TrigCfgStrs :
         LET r == configureTrigger_run(cfgstr) IN
         /\ savedTrigCfg' = configureTrigger_saved(cfgstr, savedTrigCfg)
         /\ op' = "configureTrigger"
         /\ arg' = cfgstr
         /\ cmds' = r.cmds
         /\ err' = r.err
         /\ lastTrig' = [cfg |-> cfgstr, cmds |-> r.cmds, err |-> r.err]
         /\ trigOK' = (trigOK \/ r.err = OK)
    /\ meas_out' = << >>
    /\ samples' = 0 /\ i' = 0 /\ rounds' = 0 /\ noplus' = FALSE
    /\ UNCHANGED <<savedTrigLev, pc>>

\* Public call trigLevel(cfgstr).
trigLevel ==
    /\ pc = "idle"
    /\ \E keys \in TrigKeys :
         LET r == trigLevel_run(keys, [cmds |-> << >>, err |-> OK]) IN
         /\ op' = "trigLevel"
         /\ arg' = [trig |-> keys]
         /\ cmds' = r.cmds
         /\ err' = r.err
    /\ meas_out' = << >>
    /\ samples' = 0 /\ i' = 0 /\ rounds' = 0 /\ noplus' = FALSE
    /\ UNCHANGED <<savedTrigCfg, savedTrigLev, pc, lastTrig, trigOK>>

\* Public call period(cfgstr).
period ==
    /\ pc = "idle"
    /\ \E cfgstr \in PeriodCfgStrs :
         LET r == period_run(cfgstr) IN
         /\ op' = "period"
         /\ arg' = cfgstr
         /\ cmds' = r.cmds
         /\ err' = r.err
    /\ meas_out' = << >>
    /\ samples' = 0 /\ i' = 0 /\ rounds' = 0 /\ noplus' = FALSE
    /\ UNCHANGED <<savedTrigCfg, savedTrigLev, pc, lastTrig, trigOK>>

\* Public call timeInterval(cfgstr, meas_out).
timeInterval ==
    /\ pc = "idle"
    /\ \E cfgstr \in TimeIntervalCfgStrs :
         LET r == timeInterval_run(cfgstr) IN
         /\ op' = "timeInterval"
         /\ arg' = cfgstr
         /\ cmds' = r.cmds
         /\ err' = r.err
    /\ meas_out' = << >>
    /\ samples' = 0 /\ i' = 0 /\ rounds' = 0 /\ noplus' = FALSE
    /\ UNCHANGED <<savedTrigCfg, savedTrigLev, pc, lastTrig, trigOK>>

\* Public call freq(cfgstr, meas_out, breakread), lines 173-200 and 212-216:
\* up to INIT and the choice of the read strategy.
freq ==
    /\ pc = "idle"
    /\ \E cfgstr \in FreqCfgStrs, breakread \in BOOLEAN :
         /\ op' = "freq"
         /\ arg' = [cfg |-> cfgstr, breakread |-> breakread]
         /\ IF savedTrigCfg = None
            THEN /\ err' \in NotConfiguredErrs
                 /\ cmds' = << >>
                 /\ pc' = "idle"
                 /\ samples' = 0
                 /\ UNCHANGED <<savedTrigCfg, lastTrig>>
            ELSE LET t == configureTrigger_run(savedTrigCfg)
                     r == freq_setup(cfgstr, t, savedTrigLev)
                 IN /\ savedTrigCfg' = configureTrigger_saved(savedTrigCfg, savedTrigCfg)
                    /\ lastTrig' = [cfg |-> savedTrigCfg, cmds |-> t.cmds, err |-> t.err]
                    /\ samples' = cfgstr.sampl
                    /\ cmds' = r.cmds
                    /\ err' = r.err
                    /\ pc' = IF r.err # OK THEN "idle"
                             ELSE IF ~breakread \/ cfgstr.sampl = 1 THEN "poll"
                             ELSE "stream"
    /\ meas_out' = << >>
    /\ i' = 0
    /\ rounds' = 0
    /\ noplus' = FALSE
    /\ UNCHANGED <<savedTrigLev, trigOK>>

\* Lines 201-202: the first status query of the blocking read.
freq_poll ==
    /\ pc = "poll"
    /\ \E ok \in EsrReplies :
         pc' = IF ok % 2 = 1 THEN "repoll" ELSE "fetch"
    /\ cmds' = Append(cmds, Cmd("*ESR?", 0, 0, ""))
    /\ UNCHANGED <<savedTrigCfg, savedTrigLev, op, arg, meas_out, err, samples,
                   i, rounds, noplus, lastTrig, trigOK>>

\* Lines 203-204: the body of the wait loop.  int(ok = ...) sends the query
\* and then raises TypeError (int takes no keyword argument ok).
freq_repoll ==
    /\ pc = "repoll"
    /\ cmds' = Append(cmds, Cmd("*ESR?", 0, 0, ""))
    /\ err' = "TypeError"
    /\ pc' = "idle"
    /\ UNCHANGED <<savedTrigCfg, savedTrigLev, op, arg, meas_out, samples,
                   i, rounds, noplus, lastTrig, trigOK>>

\* Lines 205-206: the fetch.  The debug message "%d samples:\n$s" is formatted
\* with two arguments, which raises TypeError before any value is added.
freq_fetch ==
    /\ pc = "fetch"
    /\ cmds' = Append(cmds, Cmd("FETC?", 0, 0, ""))
    /\ err' = "TypeError"
    /\ pc' = "idle"
    /\ UNCHANGED <<savedTrigCfg, savedTrigLev, op, arg, meas_out, samples,
                   i, rounds, noplus, lastTrig, trigOK>>

\* Lines 217-232: one iteration of the streaming loop, with the reply meas.
freq_stream ==
    /\ pc = "stream"
    /\ \E meas \in Replies :
         LET r == freq_round(meas) IN
         /\ meas_out' = meas_out \o r.out
         /\ err' = r.err
         /\ i' = IF r.err = OK THEN i + Len(r.out) ELSE i
         /\ pc' = IF r.err = OK /\ freq_while(i + Len(r.out), samples)
                  THEN "stream" ELSE "idle"
         /\ noplus' = (find_plus(meas) = 0)
    /\ cmds' = Append(cmds, Cmd("R?", 0, step, ""))
    /\ rounds' = rounds + 1
    /\ UNCHANGED <<savedTrigCfg, savedTrigLev, op, arg, samples, lastTrig, trigOK>>

Next ==
    \/ configureTrigger
    \/ trigLevel
    \/ period
    \/ timeInterval
    \/ freq
    \/ freq_poll
    \/ freq_repoll
    \/ freq_fetch
    \/ freq_stream

Spec == Init /\ [][Next]_vars

\* The streaming loop of freq runs on as long as the device answers: every
\* R? query is a blocking call that returns.
LiveSpec == Spec /\ WF_vars(freq_stream)

(***************************************************************************)
(* Properties                                                              *)
(***************************************************************************)
IsMeasurement == op \in {"freq", "period", "timeInterval"}

\* positions of the commands with mnemonic m in the list c
Where(c, m) == {k \in 1..Len(c) : c[k].m = m}

\* some present key of the trigger configuration cfg is out of range or
\* not a member of its enumeration
HasInvalidKey(cfg) ==
    \/ "cnt" \in DOMAIN cfg /\ (cfg.cnt < 1 \/ cfg.cnt > 1000000)
    \/ "del" \in DOMAIN cfg /\ (cfg.del < 0 \/ cfg.del > 3600)
    \/ "sou" \in DOMAIN cfg /\ cfg.sou \notin {"imm", "bus", "ext"}
    \/ "slo" \in DOMAIN cfg /\ cfg.slo \notin {"pos", "neg"}

\* C1: freq is accepted only after a configureTrigger call that succeeded;
\* when no configureTrigger call has succeeded, freq fails with the
\* trigger-not-configured error and sends nothing to the device.
C1_FreqNeedsConfiguredTrigger ==
    (op = "freq" /\ ~trigOK) =>
        (pc = "idle" /\ err \in NotConfiguredErrs /\ cmds = << >>)

\* C2: a measurement method called while no configureTrigger call has
\* succeeded fails, sends no command to the device and appends nothing to
\* the result sink (period and timeInterval on a fresh engine included).
C2_MeasurementNeedsConfiguredTrigger ==
    (IsMeasurement /\ ~trigOK) =>
        (pc = "idle" /\ err # OK /\ cmds = << >> /\ meas_out = << >>)

\* C3: a configureTrigger call whose configuration has an invalid value
\* under any present key fails with the invalid-parameter error and sends
\* zero commands, whatever the other keys are.
C3_ValidationAllOrNothing ==
    (lastTrig.cfg # None /\ HasInvalidKey(lastTrig.cfg)) =>
        (lastTrig.err = "AttributeError" /\ lastTrig.cmds = << >>)

\* C4: a configureTrigger call with cnt outside [1,1000000] fails with the
\* invalid-parameter error and sends zero commands, whatever other keys are
\* present and whether they are valid.
C4_CountOutOfRangeSendsNothing ==
    ("cnt" \in DOMAIN lastTrig.cfg
       /\ (lastTrig.cfg.cnt < 1 \/ lastTrig.cfg.cnt > 1000000)) =>
        /\ lastTrig.err = "AttributeError"
        /\ lastTrig.cmds = << >>
        /\ (op = "configureTrigger" => (err = "AttributeError" /\ cmds = << >>))

\* C4 witness: a public call with cnt out of range next to a valid del and
\* a valid sou has failed without a command.
C4_Witness ==
    /\ op = "configureTrigger" /\ err = "AttributeError" /\ cmds = << >>
    /\ {"cnt", "del", "sou"} \subseteq DOMAIN arg
    /\ arg.cnt = 0 /\ arg.del = 3600 /\ arg.sou = "imm"

\* C5: every configureTrigger call leaves the saved trigger configuration
\* equal to its own configuration string when it succeeds and unchanged
\* when it fails validation (so the saved configuration is always that of
\* the most recent call that succeeded, None if there is none).
C5_SavedIsLastGoodConfig ==
    [][(pc = "idle" /\ op' = "configureTrigger") =>
          savedTrigCfg' = (IF err' = OK THEN arg' ELSE savedTrigCfg)]_vars

\* C6: in the streaming read of freq (breakread, N > 1) the number of values
\* appended to the result sink never exceeds N, and is exactly N when the
\* loop has ended.
C6_StreamAppendsExactlyN ==
    (op = "freq" /\ rounds > 0) =>
        /\ Len(meas_out) <= samples
        /\ (pc = "idle" /\ err = OK) => Len(meas_out) = samples

\* C7: a streaming round whose reply carries no sample (no "+") appends
\* nothing, raises no error, leaves the count unchanged and the loop polls
\* again.
C7_EmptyRoundTolerated ==
    [][(pc = "stream" /\ rounds' = rounds + 1 /\ noplus') =>
          (meas_out' = meas_out /\ err' = OK /\ i' = i /\ pc' = "stream")]_vars

\* C8: a trigger level applied by trigLevel is sent again by the freq call
\* that follows it, after the CONF:FREQ command and before INIT.
C8_LevelResentAfterConfigure ==
    [][(pc = "idle" /\ op = "trigLevel" /\ err = OK
          /\ op' = "freq" /\ Where(cmds', "INIT") # {}) =>
          \A j \in 1..Len(cmds) :
             \E k \in 1..Len(cmds') :
                /\ cmds'[k] = cmds[j]
                /\ \E c \in Where(cmds', "CONF:FREQ") : c < k
                /\ \A n \in Where(cmds', "INIT") : k < n]_vars

\* C9: timeInterval sends the time-interval configuration command for the
\* channels (1,2) when ref is "A" and for (2,1) otherwise.
C9_RefSelectsChannels ==
    op = "timeInterval" =>
        \E k \in 1..Len(cmds) :
           cmds[k] = IF arg.ref = "A"
                     THEN Cmd("CONFIGURE:TINTERVAL", 1, 2, "")
                     ELSE Cmd("CONFIGURE:TINTERVAL", 2, 1, "")

\* C10: timeInterval with sampl = N sends one INIT and then exactly N READ?
\* queries, and appends exactly N entries to the result sink.
C10_OneReadPerSample ==
    op = "timeInterval" =>
        /\ Cardinality(Where(cmds, "INIT")) = 1
        /\ Cardinality(Where(cmds, "READ?")) = arg.sampl
        /\ \A n \in Where(cmds, "INIT"), k \in Where(cmds, "READ?") : n < k
        /\ Len(meas_out) = arg.sampl

\* C11: trigLevel called with an auto entry for channel 1 and a manual entry
\* for channel 2 ("trig1:a50 trig2:2.5") completes without error and sends
\* an INPUT<n>:LEVEL command for both channels.
C11_AutoAndManualLevel ==
    (op = "trigLevel"
       /\ arg.trig = <<[ch |-> 1, val |-> <<"a", "5", "0">>],
                       [ch |-> 2, val |-> <<"2", ".", "5">>]>>) =>
        /\ err = OK
        /\ \A c \in {1, 2} :
              \E k \in Where(cmds, "INPUT:LEVEL") : cmds[k].ch = c

\* C12: trigLevel called with a configuration without any trig<digit> key
\* fails with the missing-parameter error and sends no command.
C12_NoTrigKeyFails ==
    (op = "trigLevel" /\ arg.trig = << >>) =>
        (err = "AttributeError" /\ cmds = << >>)

\* C12 witness: such a call has been made and has failed.
C12_Witness ==
    op = "trigLevel" /\ arg.trig = << >> /\ err = "AttributeError"

\* C13: period with k channel keys sends exactly k READ? queries, one per
\* channel, each after that channel's CONF:PER, DC coupling and INIT; also
\* when the configuration holds channel keys only.
C13_OneReadPerChannel ==
    (op = "period" /\ arg.ch # << >>) =>
        /\ Cardinality(Where(cmds, "READ?")) = Len(arg.ch)
        /\ Cardinality(Where(cmds, "INIT")) = Len(arg.ch)
        /\ \A j \in 1..Len(arg.ch) :
              \E c \in Where(cmds, "CONF:PER"), n \in Where(cmds, "INIT"),
                 q \in Where(cmds, "READ?") :
                 cmds[c].ch = arg.ch[j] /\ c < n /\ n < q

\* s is a prefix of t
IsPrefix(s, t) == Len(s) <= Len(t) /\ SubSeq(t, 1, Len(s)) = s

\* C14: a streaming round that fails to parse (no "+" in the reply, or a
\* token that is not a number) ends freq with that error: no further R? is
\* sent, the count is not advanced, and the result sink keeps what it held
\* and what the round appended before the failing token (with no "+":
\* exactly what it held).
C14_ParseErrorAbortsStream ==
    /\ [](op = "freq" /\ err # OK => pc = "idle")
    /\ [][(pc = "stream" /\ rounds' = rounds + 1) =>
            /\ noplus' => (err' = "IndexError" /\ meas_out' = meas_out)
            /\ err' # OK =>
                  /\ err' \in {"IndexError", "ValueError"}
                  /\ pc' = "idle"
                  /\ i' = i
                  /\ IsPrefix(meas_out, meas_out')
                  /\ Len(cmds') = Len(cmds) + 1]_vars

\* C14 witness: a round has failed on a token after a value was appended.
C14_Witness ==
    /\ op = "freq" /\ pc = "idle" /\ err = "ValueError"
    /\ rounds >= 1 /\ Len(meas_out) >= 1

\* C15: the blocking read of freq ends only after a status reply with bit 0
\* clear, and then with exactly one FETC? sent after every *ESR?; also when
\* the first status reply has bit 0 set.
C15_FetchAfterPolling ==
    (op = "freq" /\ pc = "idle" /\ Where(cmds, "*ESR?") # {}) =>
        /\ Cardinality(Where(cmds, "FETC?")) = 1
        /\ \A p \in Where(cmds, "*ESR?"), f \in Where(cmds, "FETC?") : p < f

\* position of a command of freq in the documented order of the call
Rank(m) ==
    CASE m = "CONF:FREQ" -> 1
      [] m = "SAMP:COUN" -> 2
      [] m = "TRIG:COUN" -> 3
      [] m \in {"TRIGGer:COUNt", "TRIGGer:DELay", "TRIGGer:SOURce",
                "TRIGGer:SLOPe"} -> 4
      [] m \in {"INPUT:LEVEL:AUTO OFF", "INPUT:LEVEL"} -> 5
      [] m = "INPUT:COUPLING" -> 6
      [] m = "SENS:FREQ:GATE:TIME" -> 7
      [] m = "INIT" -> 8
      [] OTHER -> 9

\* C16: a freq call that has armed the device has sent, in this order:
\* CONF:FREQ, SAMP:COUN 1, TRIG:COUN <sample count>, the commands of the
\* saved trigger configuration, trigger-level commands, input coupling,
\* gate time, INIT; each of the fixed ones once, and every query after INIT.
C16_SetupOrder ==
    (op = "freq" /\ Where(cmds, "INIT") # {}) =>
        /\ \A j, k \in 1..Len(cmds) : j < k => Rank(cmds[j].m) <= Rank(cmds[k].m)
        /\ \A m \in {"CONF:FREQ", "SAMP:COUN", "TRIG:COUN", "INPUT:COUPLING",
                      "SENS:FREQ:GATE:TIME", "INIT"} :
              Cardinality(Where(cmds, m)) = 1
        /\ cmds[2].n = 1
        /\ cmds[3].n = arg.cfg.sampl
        /\ SelectSeq(cmds, LAMBDA c : Rank(c.m) = 4) = lastTrig.cmds
        /\ lastTrig.cfg = savedTrigCfg

\* C16 witness: a streaming freq call has ended without error under a saved
\* trigger configuration of several keys.
C16_Witness ==
    /\ op = "freq" /\ pc = "idle" /\ err = OK /\ rounds >= 1
    /\ Len(lastTrig.cmds) >= 2

\* the command configureTrigger writes for key k of the configuration cfg
KeyCmd(k, cfg) ==
    CASE k = "cnt" -> Cmd("TRIGGer:COUNt", 0, cfg.cnt, "")
      [] k = "del" -> Cmd("TRIGGer:DELay", 0, cfg.del, "%.6f")
      [] k = "sou" -> Cmd("TRIGGer:SOURce", 0, 0, cfg.sou)
      [] k = "slo" -> Cmd("TRIGGer:SLOPe", 0, 0, cfg.slo)

C18_CountAtInitIsSampleCount ==
    (op = "freq" /\ Where(cmds, "INIT") # {}) =>
        LET cnts == Where(cmds, "TRIG:COUN") \cup Where(cmds, "TRIGGer:COUNt")
            last == CHOOSE k \in cnts : \A j \in cnts : j <= k
        IN cmds[last].n = arg.cfg.sampl

\* C19: the streaming loop of freq never sends R? once the count of
\* appended values has reached the sample count, and it ends.
C19_StreamTerminates ==
    /\ [](pc = "stream" => (i < samples /\ i = Len(meas_out)))
    /\ (pc = "stream") ~> (pc = "idle")

\* C19 witness: a streaming read has ended after several rounds with the
\* count reached.
C19_Witness ==
    /\ op = "freq" /\ pc = "idle" /\ err = OK
    /\ rounds >= 2 /\ i >= samples
====
